---- MODULE Spec2Model ----
(***************************************************************************)
(* Model of cargo-compat's resolver (src/src/resolver.rs) together with    *)
(* the validator boundary it drives (src/src/validator.rs).                *)
(*                                                                         *)
(* Versions are records [major, minor, patch, pre]; pre = 0 is the empty   *)
(* pre-release tag, pre > 0 is a pre-release identifier ordered by its     *)
(* number.  Build metadata is not modelled.  Indices into version lists    *)
(* are 0-based as in the source; At(V, i) reads element i.                 *)
(***************************************************************************)
EXTENDS Integers, Sequences, FiniteSets, TLC

\* ------------------------------------------------------------------ bounds
\* number of versions of the version universe
NumVersions == 12
\* longest catalog entry drawn for a single search
MaxLen == 11
\* longest catalog entry for which the whole verdict function is drawn up front
MaxArbLen == 5
\* longest catalog entry in which one version may be yanked
MaxYankLen == 5
\* pin operations (cargo add) that may fail during one run
MaxPinFailures == 1

\* the clock of the cache runs from 0 to MaxTime
MaxTime == 3

\* the validity durations the cache is asked with
MaxValidity == 2

\* Option::None for Option<u64> / Option<usize>
None == -1

\* Option<T> of a value that is not a number
Nothing == <<>>

Some(x) == <<x>>

Unwrap(opt) == opt[1]

\* ---------------------------------------------------------------- versions
Version(ma, mi, pa, pr) == [major |-> ma, minor |-> mi, patch |-> pa, pre |-> pr]

\* Ord for Prerelease: the empty tag is greater than every non-empty tag
PreLess(p, q) == p # 0 /\ (q = 0 \/ p < q)

\* Ord for Version
VersionLess(a, b) ==
    IF a.major # b.major THEN a.major < b.major
    ELSE IF a.minor # b.minor THEN a.minor < b.minor
    ELSE IF a.patch # b.patch THEN a.patch < b.patch
    ELSE PreLess(a.pre, b.pre)

At(seq, i) == seq[i + 1]

RECURSIVE Insert(_, _)
Insert(sorted, v) ==
    IF sorted = <<>> THEN <<v>>
    ELSE IF VersionLess(v, Head(sorted)) THEN <<v>> \o sorted
    ELSE <<Head(sorted)>> \o Insert(Tail(sorted), v)

\* Vec<Version>::sort (stable; versions of one entry are distinct)
RECURSIVE SortVersions(_)
SortVersions(vs) ==
    IF vs = <<>> THEN <<>> ELSE Insert(SortVersions(Tail(vs)), Head(vs))

\* Iterator::position
RECURSIVE PositionFrom(_, _, _)
PositionFrom(vs, v, i) ==
    IF i >= Len(vs) THEN None
    ELSE IF At(vs, i) = v THEN i
    ELSE PositionFrom(vs, v, i + 1)

Position(vs, v) == PositionFrom(vs, v, 0)

Range(seq) == {seq[i] : i \in 1..Len(seq)}

\* Iterator::max_by_key(|v| v.version) over a set of distinct versions
MaxVersion(S) == CHOOSE v \in S : \A w \in S : w = v \/ VersionLess(w, v)

\* ------------------------------------------------------------- comparators
Comparator(op, ma, mi, pa, pr) ==
    [op |-> op, major |-> ma, minor |-> mi, patch |-> pa, pre |-> pr]

\* VersionReq::STAR, the requirement without comparators
STAR == <<>>

matches_exact(cmp, ver) ==
    /\ ver.major = cmp.major
    /\ (cmp.minor # None => ver.minor = cmp.minor)
    /\ (cmp.patch # None => ver.patch = cmp.patch)
    /\ ver.pre = cmp.pre

matches_greater(cmp, ver) ==
    IF ver.major # cmp.major THEN ver.major > cmp.major
    ELSE IF cmp.minor = None THEN FALSE
    ELSE IF ver.minor # cmp.minor THEN ver.minor > cmp.minor
    ELSE IF cmp.patch = None THEN FALSE
    ELSE IF ver.patch # cmp.patch THEN ver.patch > cmp.patch
    ELSE PreLess(cmp.pre, ver.pre)

matches_less(cmp, ver) ==
    IF ver.major # cmp.major THEN ver.major < cmp.major
    ELSE IF cmp.minor = None THEN FALSE
    ELSE IF ver.minor # cmp.minor THEN ver.minor < cmp.minor
    ELSE IF cmp.patch = None THEN FALSE
    ELSE IF ver.patch # cmp.patch THEN ver.patch < cmp.patch
    ELSE PreLess(ver.pre, cmp.pre)

matches_caret(cmp, ver) ==
    IF ver.major # cmp.major THEN FALSE
    ELSE IF cmp.minor = None THEN TRUE
    ELSE IF cmp.patch = None
         THEN (IF cmp.major > 0 THEN ver.minor >= cmp.minor
               ELSE ver.minor = cmp.minor)
    ELSE IF cmp.major > 0 /\ ver.minor # cmp.minor THEN ver.minor > cmp.minor
    ELSE IF cmp.major > 0 /\ ver.patch # cmp.patch THEN ver.patch > cmp.patch
    ELSE IF cmp.major = 0 /\ cmp.minor > 0 /\ ver.minor # cmp.minor THEN FALSE
    ELSE IF cmp.major = 0 /\ cmp.minor > 0 /\ ver.patch # cmp.patch
         THEN ver.patch > cmp.patch
    ELSE IF cmp.major = 0 /\ cmp.minor = 0
            /\ (ver.minor # cmp.minor \/ ver.patch # cmp.patch) THEN FALSE
    ELSE ~PreLess(ver.pre, cmp.pre)

matches_impl(cmp, ver) ==
    CASE cmp.op = "Exact"     -> matches_exact(cmp, ver)
      [] cmp.op = "GreaterEq" -> matches_exact(cmp, ver) \/ matches_greater(cmp, ver)
      [] cmp.op = "LessEq"    -> matches_exact(cmp, ver) \/ matches_less(cmp, ver)
      [] cmp.op = "Caret"     -> matches_caret(cmp, ver)

pre_is_compatible(cmp, ver) ==
    /\ cmp.major = ver.major
    /\ cmp.minor = ver.minor
    /\ cmp.patch = ver.patch
    /\ cmp.pre # 0

\* VersionReq::matches: every comparator matches, and a pre-release version
\* needs a comparator of the same major.minor.patch carrying a pre-release tag
Matches(req, ver) ==
    /\ \A i \in 1..Len(req) : matches_impl(req[i], ver)
    /\ (ver.pre # 0 => \E i \in 1..Len(req) : pre_is_compatible(req[i], ver))

\* the versions of a list that a requirement matches
MatchSet(req, versions) == {v \in Range(versions) : Matches(req, v)}

ExactReq(v) == <<Comparator("Exact", v.major, v.minor, v.patch, v.pre)>>

\* ------------------------------------------------------ simplify_version_req
\* a check that accepts a proposal matching at least the matched set
check_proposal_superset(proposal, versions, matching_versions) ==
    matching_versions \subseteq MatchSet(proposal, versions)

\* the closure check_proposal: the proposal matches exactly the matched set
check_proposal(proposal, versions, matching_versions) ==
    MatchSet(proposal, versions) = matching_versions

\* proposals that all carry the minor and the patch of comparators[0]
proposal_caret_specific(version_req, k) ==
    LET c0 == version_req[1] IN
    <<Comparator("Caret", c0.major,
                 IF c0.minor = None THEN 0 ELSE c0.minor,
                 IF c0.patch = None THEN 0 ELSE c0.patch,
                 0)>>

\* the three caret proposals, least specific first, built from comparators[0]
proposal_caret(version_req, k) ==
    LET c0 == version_req[1] IN
    <<Comparator("Caret", c0.major,
                 IF k >= 2 THEN (IF c0.minor = None THEN 0 ELSE c0.minor) ELSE None,
                 IF k >= 3 THEN (IF c0.patch = None THEN 0 ELSE c0.patch) ELSE None,
                 0)>>

\* a simplifier that returns the exact requirement of a single candidate
simplify_version_req_single_exact(version_req, versions) ==
    IF Len(versions) = 1 THEN ExactReq(versions[1])
    ELSE IF version_req = <<>> \/ \A v \in Range(versions) : Matches(version_req, v)
    THEN STAR
    ELSE version_req

\* the first simplification that matches the versions the requirement matches:
\* *, =x.y.z, ^x, ^x.y, ^x.y.z, else the requirement itself
simplify_version_req(version_req, versions) ==
    IF version_req = <<>> \/ \A v \in Range(versions) : Matches(version_req, v)
    THEN STAR
    ELSE LET matching_versions == MatchSet(version_req, versions) IN
         IF Cardinality(matching_versions) = 1
         THEN ExactReq(CHOOSE v \in matching_versions : TRUE)
         ELSE IF check_proposal(proposal_caret(version_req, 1), versions, matching_versions)
              THEN proposal_caret(version_req, 1)
         ELSE IF check_proposal(proposal_caret(version_req, 2), versions, matching_versions)
              THEN proposal_caret(version_req, 2)
         ELSE IF check_proposal(proposal_caret(version_req, 3), versions, matching_versions)
              THEN proposal_caret(version_req, 3)
         ELSE version_req

\* ------------------------------------------------------ binary_search_bounds
\* the four indices of the search and the loop being run
StartSearch(versions, initial_version) ==
    [loop          |-> "left",
     left_invalid  |-> None,
     left_valid    |-> Position(versions, initial_version),
     right_valid   |-> Position(versions, initial_version),
     right_invalid |-> None]

\* a scan that moves the invalid index one step towards the valid one
mid_index_linear(invalid_index, valid_index) ==
    IF invalid_index < valid_index THEN invalid_index + 1
    ELSE IF invalid_index > valid_index THEN invalid_index - 1
    ELSE invalid_index

mid_index(invalid_index, valid_index) == (invalid_index + valid_index) \div 2

\* a search whose loops break two steps away from the invalid index
QueryIndex_stops_early(s, n) ==
    IF s.loop = "left"
    THEN IF s.left_invalid = None THEN 0
         ELSE LET m == mid_index(s.left_invalid, s.left_valid) IN
              IF s.left_valid - s.left_invalid <= 2 THEN None ELSE m
    ELSE IF s.right_invalid = None THEN n - 1
         ELSE LET m == mid_index(s.right_invalid, s.right_valid) IN
              IF s.right_invalid - s.right_valid <= 2 THEN None ELSE m

\* a search that takes an end of the list for checked when it is the seed
QueryIndex_skip_seed(s, n) ==
    IF s.loop = "left"
    THEN IF s.left_invalid = None
         THEN (IF s.left_valid = 0 THEN None ELSE 0)
         ELSE LET m == mid_index(s.left_invalid, s.left_valid) IN
              IF m = s.left_valid \/ m = s.left_invalid THEN None ELSE m
    ELSE IF s.right_invalid = None
         THEN (IF s.right_valid = n - 1 THEN None ELSE n - 1)
         ELSE LET m == mid_index(s.right_invalid, s.right_valid) IN
              IF m = s.right_valid \/ m = s.right_invalid THEN None ELSE m

\* the index the current loop iteration hands to the validator, None when the
\* iteration breaks without a query
QueryIndex(s, n) ==
    IF s.loop = "left"
    THEN IF s.left_invalid = None THEN 0
         ELSE LET m == mid_index(s.left_invalid, s.left_valid) IN
              IF m = s.left_valid \/ m = s.left_invalid THEN None ELSE m
    ELSE IF s.right_invalid = None THEN n - 1
         ELSE LET m == mid_index(s.right_invalid, s.right_valid) IN
              IF m = s.right_valid \/ m = s.right_invalid THEN None ELSE m

NextLoop(s) == [s EXCEPT !.loop = IF s.loop = "left" THEN "right" ELSE "built"]

\* an update whose left loop moves the wrong index
AfterQuery_swapped(s, idx, is_valid) ==
    IF s.loop = "left"
    THEN IF s.left_invalid = None
         THEN (IF is_valid THEN NextLoop(s) ELSE [s EXCEPT !.left_invalid = 0])
         ELSE (IF is_valid THEN [s EXCEPT !.left_invalid = idx]
               ELSE [s EXCEPT !.left_valid = idx])
    ELSE IF s.right_invalid = None
         THEN (IF is_valid THEN NextLoop(s) ELSE [s EXCEPT !.right_invalid = idx])
         ELSE (IF is_valid THEN [s EXCEPT !.right_valid = idx]
               ELSE [s EXCEPT !.right_invalid = idx])

\* an update that leaves the invalid index where it is on a failed midpoint
AfterQuery_keeps_invalid(s, idx, is_valid) ==
    IF s.loop = "left"
    THEN IF s.left_invalid = None
         THEN (IF is_valid THEN NextLoop(s) ELSE [s EXCEPT !.left_invalid = 0])
         ELSE (IF is_valid THEN [s EXCEPT !.left_valid = idx] ELSE s)
    ELSE IF s.right_invalid = None
         THEN (IF is_valid THEN NextLoop(s) ELSE [s EXCEPT !.right_invalid = idx])
         ELSE (IF is_valid THEN [s EXCEPT !.right_valid = idx] ELSE s)

\* the iteration's update once the validator answered is_valid for index idx
AfterQuery(s, idx, is_valid) ==
    IF s.loop = "left"
    THEN IF s.left_invalid = None
         THEN (IF is_valid THEN NextLoop(s) ELSE [s EXCEPT !.left_invalid = 0])
         ELSE (IF is_valid THEN [s EXCEPT !.left_valid = idx]
               ELSE [s EXCEPT !.left_invalid = idx])
    ELSE IF s.right_invalid = None
         THEN (IF is_valid THEN NextLoop(s) ELSE [s EXCEPT !.right_invalid = idx])
         ELSE (IF is_valid THEN [s EXCEPT !.right_valid = idx]
               ELSE [s EXCEPT !.right_invalid = idx])

\* bounds taken from the invalid indices
Bounds_invalid(s, versions) ==
    (IF s.left_invalid # None
     THEN LET min_version == At(versions, s.left_invalid) IN
          <<Comparator("GreaterEq", min_version.major, min_version.minor,
                       min_version.patch, min_version.pre)>>
     ELSE <<>>)
    \o
    (IF s.right_invalid # None
     THEN LET max_version == At(versions, s.right_invalid) IN
          <<Comparator("LessEq", max_version.major, max_version.minor,
                       max_version.patch, max_version.pre)>>
     ELSE <<>>)

\* bounds pushed on both sides whatever the end-point probes returned
Bounds_unconditional(s, versions) ==
    LET min_version == At(versions, s.left_valid)
        max_version == At(versions, s.right_valid)
    IN <<Comparator("GreaterEq", min_version.major, min_version.minor,
                    min_version.patch, min_version.pre),
         Comparator("LessEq", max_version.major, max_version.minor,
                    max_version.patch, max_version.pre)>>

\* the comparators pushed after the two loops
Bounds(s, versions) ==
    (IF s.left_invalid # None
     THEN LET min_version == At(versions, s.left_valid) IN
          <<Comparator("GreaterEq", min_version.major, min_version.minor,
                       min_version.patch, min_version.pre)>>
     ELSE <<>>)
    \o
    (IF s.right_invalid # None
     THEN LET max_version == At(versions, s.right_valid) IN
          <<Comparator("LessEq", max_version.major, max_version.minor,
                       max_version.patch, max_version.pre)>>
     ELSE <<>>)

\* ------------------------------------------------------- the version universe
\* version number i of the universe, ascending in i: per major x the versions
\* x.0.0-alpha, x.0.0, x.0.1, x.1.0, x.2.0
Universe(i) ==
    LET j == i % 5 IN
    Version(i \div 5,
            IF j = 3 THEN 1 ELSE IF j = 4 THEN 2 ELSE 0,
            IF j = 2 THEN 1 ELSE 0,
            IF j = 0 THEN 1 ELSE 0)

\* a catalog entry: the versions number lo .. lo+len-1 of the universe, the one
\* numbered yank (if any) marked yanked, listed oldest or newest first
Window(lo, len, yank, newest_first) ==
    [k \in 1..len |->
        LET i == IF newest_first THEN lo + len - k ELSE lo + k - 1 IN
        [version |-> Universe(i), yanked |-> (i = yank)]]

CrateVersion(v, y) == [version |-> v, yanked |-> y]

\* ------------------------------------------------------------------- state
VARIABLES
    targets,               \* Resolver.targets: the declared dependencies
    lock_file,             \* Cargo.lock as read by populate_default
    package_informations,  \* Resolver.package_informations
    warn_enabled,          \* the log level lets warn! evaluate its arguments
    packages_requirements, \* Resolver.packages_requirements
    packages,              \* Resolver.packages (the seeds)
    tree,                  \* requirement per dependency in the working manifest
    verdict,               \* outcome of the build/test per manifest contents
    pc,                    \* position of the command
    cur,                   \* position of the running loop over package names
    search,                \* indices of the running binary_search_bounds
    old_check,             \* ledger of the running resolve_package
    comparison_count,      \* probe counter of the running resolve_package
    pin_failures,          \* failed cargo add calls so far
    finished,              \* the last resolve_package that returned Ok
    hist,                  \* per run: what the resolver asked of the validator
    run,                   \* 1 for the first run, 2 for the run on its output
    first_requirements,    \* the requirements the first run produced
    cache                  \* CrateCache, the clock and its last retrieval

vars == <<targets, lock_file, package_informations, warn_enabled,
          packages_requirements, packages, tree, verdict, pc, cur, search,
          old_check, comparison_count, pin_failures, finished, hist, run,
          first_requirements, cache>>

\* what a run of the resolver reads and never writes
inputs == <<targets, lock_file, package_informations, warn_enabled, cache>>

EmptyMap == [x \in {} |-> 0]

\* BTreeMap iterates its keys in ascending order
NameOrder == <<"a", "b", "g">>

Keys(map) == SelectSeq(NameOrder, LAMBDA n : n \in DOMAIN map)

Insert_kv(map, k, v) == [x \in DOMAIN map \cup {k} |-> IF x = k THEN v ELSE map[x]]

NoSearch ==
    [loop |-> "none", left_invalid |-> None, left_valid |-> None,
     right_valid |-> None, right_invalid |-> None]

NoFinished ==
    [name |-> "", versions |-> <<>>, seed |-> None, search |-> NoSearch,
     raw |-> <<>>, output_req |-> <<>>, comparisons |-> 0, ledger |-> EmptyMap]

NoHist ==
    [queries |-> EmptyMap, checks |-> EmptyMap, probe_pins |-> EmptyMap,
     baseline_checks |-> 0, baseline_ok |-> FALSE, searched |-> {},
     written |-> {}, write_count |-> 0, cleaned |-> FALSE, aborted |-> Nothing,
     events |-> <<>>, observed |-> EmptyMap, write_failed |-> FALSE,
     first_seed |-> Nothing]

Count(map, k) == IF k \in DOMAIN map THEN map[k] ELSE 0

Bump(map, k) == Insert_kv(map, k, Count(map, k) + 1)

\* no retrieval yet
NoRetrieval ==
    [op |-> "none", names |-> {}, validity |-> 0, now |-> 0, before |-> EmptyMap,
     found |-> EmptyMap, fetched |-> {}, ok |-> TRUE, packages |-> EmptyMap,
     stored_at |-> 0]

\* CrateCache::default() at time 0
NoCache == [entries |-> EmptyMap, now |-> 0, last |-> NoRetrieval]

\* --------------------------------------------------------- populate_default
\* a loop that records the requirement of the git dependencies as well
RECURSIVE DeclaredRequirements_with_git(_, _)
DeclaredRequirements_with_git(deps, reqs) ==
    IF deps = <<>> THEN reqs
    ELSE LET dependency == Head(deps) IN
         DeclaredRequirements_with_git(Tail(deps),
             Insert_kv(reqs, dependency.crate_name, dependency.required_version))

\* the declared requirement of every dependency that is not a git dependency
RECURSIVE DeclaredRequirements(_, _)
DeclaredRequirements(deps, reqs) ==
    IF deps = <<>> THEN reqs
    ELSE LET dependency == Head(deps) IN
         DeclaredRequirements(Tail(deps),
             IF dependency.git THEN reqs
             ELSE Insert_kv(reqs, dependency.crate_name, dependency.required_version))

\* lock_file.packages.iter().find(name matches and the requirement matches)
RECURSIVE FindLock(_, _, _)
FindLock(lock_packages, pkg_name, version_req) ==
    IF lock_packages = <<>> THEN Nothing
    ELSE IF Head(lock_packages).name = pkg_name
            /\ Matches(version_req, Head(lock_packages).version)
         THEN Some(Head(lock_packages).version)
    ELSE FindLock(Tail(lock_packages), pkg_name, version_req)

\* the seeds adopted from Cargo.lock; the latest matching catalog version of a
\* package without a lock entry is only logged, never stored
LockSeeds(reqs, lock) ==
    LET found(n) == FindLock(lock.packages, n, reqs[n])
        seeded == {n \in DOMAIN reqs : lock.exists /\ found(n) # Nothing}
    IN [n \in seeded |-> Unwrap(found(n))]

PopulateDefault ==
    /\ pc = "populate_default"
    /\ packages_requirements' = DeclaredRequirements(targets, packages_requirements)
    /\ packages' = LockSeeds(packages_requirements', lock_file)
    /\ pc' = "resolve"
    /\ UNCHANGED <<inputs, tree, verdict, cur, search, old_check,
                   comparison_count, pin_failures, finished, hist, run,
                   first_requirements>>

\* ------------------------------------------------- resolve: the repair loop
\* crate_info.versions.iter().find(|v| v.version == version)
RECURSIVE FindVersion(_, _)
FindVersion(versions, version) ==
    IF versions = <<>> THEN Nothing
    ELSE IF Head(versions).version = version THEN Some(Head(versions))
    ELSE FindVersion(Tail(versions), version)

NonYanked(versions) == SelectSeq(versions, LAMBDA v : ~v.yanked)

VersionsOf(versions) == [i \in 1..Len(versions) |-> versions[i].version]

\* a replacement chosen without the filter on the yank flag
Replacement_yanked(crate_versions, req) ==
    LET matching == {v \in Range(VersionsOf(crate_versions)) : Matches(req, v)}
    IN IF matching # {} THEN Some(MaxVersion(matching))
       ELSE IF crate_versions # <<>>
            THEN Some(crate_versions[Len(crate_versions)].version)
       ELSE Nothing

\* a replacement chosen without the filter on the declared requirement
Replacement_any_requirement(crate_versions, req) ==
    LET non_yanked == NonYanked(crate_versions)
    IN IF non_yanked # <<>>
       THEN Some(MaxVersion(Range(VersionsOf(non_yanked))))
       ELSE Nothing

\* the replacement of an invalid or yanked seed: the greatest non-yanked
\* version matching the requirement, else the last non-yanked one of the
\* entry, else None
Replacement(crate_versions, req) ==
    LET non_yanked == NonYanked(crate_versions)
        matching == {v \in Range(VersionsOf(non_yanked)) : Matches(req, v)}
    IN IF matching # {} THEN Some(MaxVersion(matching))
       ELSE IF non_yanked # <<>> THEN Some(non_yanked[Len(non_yanked)].version)
       ELSE Nothing

\* the first loop of resolve over the package names still to visit
RECURSIVE RepairLoop(_, _)
RepairLoop(names, pk) ==
    IF names = <<>> THEN [status |-> "ok", packages |-> pk]
    ELSE LET package_name == Head(names)
             crate_versions == package_informations[package_name]
         IN
         IF package_name \notin DOMAIN pk
         THEN [status |-> "panicked", packages |-> pk]
         ELSE LET version == FindVersion(crate_versions, pk[package_name]) IN
              IF version # Nothing /\ ~Unwrap(version).yanked
              THEN RepairLoop(Tail(names), pk)
              ELSE IF version = Nothing /\ warn_enabled
              THEN [status |-> "panicked", packages |-> pk]
              ELSE IF package_name \notin DOMAIN packages_requirements
              THEN [status |-> "panicked", packages |-> pk]
              ELSE LET non_yanked_version ==
                           Replacement(crate_versions,
                                       packages_requirements[package_name])
                   IN IF non_yanked_version = Nothing
                      THEN [status |-> "failed", packages |-> pk]
                      ELSE RepairLoop(Tail(names),
                               Insert_kv(pk, package_name,
                                         Unwrap(non_yanked_version)))

RepairSeeds ==
    /\ pc = "resolve"
    /\ LET r == RepairLoop(Keys(package_informations), packages) IN
       /\ packages' = r.packages
       /\ pc' = IF r.status = "ok" THEN "baseline" ELSE r.status
    /\ UNCHANGED <<inputs, packages_requirements, tree, verdict, cur, search,
                   old_check, comparison_count, pin_failures, finished, hist,
                   run, first_requirements>>

\* ------------------------------------------------------------ the validator
\* set_dependency_req: cargo add name@req; on failure the manifest is unchanged
set_dependency_req(t, name, version_req, ok) ==
    IF ok THEN [t EXCEPT ![name] = version_req] ELSE t

\* set_dependency: set_dependency_req with the exact requirement =version
set_dependency(t, name, version, ok) ==
    set_dependency_req(t, name, ExactReq(version), ok)

\* set_dependencies: the bulk form applied before the baseline check
set_dependencies(t, pins) ==
    [n \in DOMAIN t |-> IF n \in DOMAIN pins THEN ExactReq(pins[n]) ELSE t[n]]

\* run_check answers by the manifest it finds: the same manifest always
\* builds or always fails to build
Deterministic(t, pass) == t \in DOMAIN verdict => pass = verdict[t]

\* ----------------------------------------------------------- resolve_package
PackageNames == Keys(package_informations)

\* all_versions as sorted at the start of binary_search_bounds
SortedVersions(name) ==
    SortVersions(VersionsOf(NonYanked(package_informations[name])))

\* a command that goes on to the write-back whatever resolve returned
AfterResolve_ignored(ok) == "write"

\* do_resolve_command on the result of resolve: Err exits the process, Ok
\* goes on to the write-back
AfterResolve(ok) == IF ok THEN "write" ELSE "failed"

\* a resolve that returns after the search of its first package
EnterPackage_first_only(i) ==
    IF i > 1
    THEN [pc |-> AfterResolve(TRUE), cur |-> 1, search |-> NoSearch]
    ELSE LET name == PackageNames[i]
             s == StartSearch(SortedVersions(name), packages[name])
         IN IF s.left_valid = None
            THEN [pc |-> "panicked", cur |-> i, search |-> NoSearch]
            ELSE [pc |-> "search", cur |-> i, search |-> s]

\* the call resolve_package(names[i], seed, ..) up to the first loop iteration,
\* or the return of resolve after the last package
EnterPackage(i) ==
    IF i > Len(PackageNames)
    THEN [pc |-> AfterResolve(TRUE), cur |-> 1, search |-> NoSearch]
    ELSE LET name == PackageNames[i]
             s == StartSearch(SortedVersions(name), packages[name])
         IN IF s.left_valid = None
            THEN [pc |-> "panicked", cur |-> i, search |-> NoSearch]
            ELSE [pc |-> "search", cur |-> i, search |-> s]

package_name == PackageNames[cur]

versions == SortedVersions(package_name)

\* what follows the loop iteration that left the indices s, the manifest t,
\* the ledger l and the counter c: the next iteration, or the end of
\* binary_search_bounds and of resolve_package and the start of the next one
Advance(s, t, l, c, h, fails, restore_ok) ==
    IF s.loop # "built"
    THEN /\ restore_ok
         /\ search' = s
         /\ tree' = t
         /\ old_check' = l
         /\ comparison_count' = c
         /\ hist' = h
         /\ pin_failures' = fails
         /\ UNCHANGED <<packages_requirements, finished, pc, cur>>
    ELSE LET version_req == Bounds(s, versions)
             output_req == simplify_version_req(version_req, versions)
             next == EnterPackage(cur + 1)
         IN
         /\ restore_ok \/ fails < MaxPinFailures
         /\ tree' = set_dependency(t, package_name, packages[package_name], restore_ok)
         /\ pin_failures' = IF restore_ok THEN fails ELSE fails + 1
         /\ packages_requirements' =
                Insert_kv(packages_requirements, package_name, output_req)
         /\ finished' = [name |-> package_name, versions |-> versions,
                         seed |-> Position(versions, packages[package_name]),
                         search |-> s, raw |-> version_req,
                         output_req |-> output_req, comparisons |-> c,
                         ledger |-> l]
         /\ hist' = [h EXCEPT !.searched = @ \cup {package_name}]
         /\ pc' = next.pc
         /\ cur' = next.cur
         /\ search' = next.search
         /\ old_check' = EmptyMap
         /\ comparison_count' = 0

\* a memoizer that never finds a version in its ledger
InLedger_never(ledger, version) == FALSE

\* old_check.contains_key(version)
InLedger(ledger, version) == version \in DOMAIN ledger

\* a memoizer that takes a hard error of run_check for a verdict
ProbeContinues_always(hard) == TRUE

\* the arms of the match on run_check: Err(Either::Right(e)) is returned and
\* ends the search through the ? operators, the other two give a verdict
ProbeContinues(hard) == ~hard

\* a memoizer that records the passing verdicts only
Memoize_passes_only(ledger, version, is_valid) ==
    IF is_valid THEN Insert_kv(ledger, version, TRUE) ELSE ledger

\* old_check.insert(version, verdict) in the two arms that give a verdict
Memoize(ledger, version, is_valid) == Insert_kv(ledger, version, is_valid)

\* a memoizer that pins before it sleeps
ProbeEvents_pin_first(hard) ==
    <<"count", "pin", "sleep", "check">> \o (IF hard THEN <<>> ELSE <<"record">>)

\* what the closure does, in the order of its statements, on a version that
\* is not in the ledger: fetch_add, sleep, set_dependency, run_check, and
\* old_check.insert unless run_check returned a hard error
ProbeEvents(hard) ==
    <<"count", "sleep", "pin", "check">> \o (IF hard THEN <<>> ELSE <<"record">>)

\* a loop iteration whose version is not in the ledger: count, sleep, pin,
\* check, record
Probe(pin_ok, hard, restore_ok) ==
    /\ pc = "search"
    /\ pin_ok \/ pin_failures < MaxPinFailures
    /\ LET idx == QueryIndex(search, Len(versions)) IN
       /\ idx # None
       /\ LET version == At(versions, idx)
              key == <<package_name, version>>
              t == set_dependency(tree, package_name, version, pin_ok)
              fails == IF pin_ok THEN pin_failures ELSE pin_failures + 1
              h == [hist EXCEPT !.queries = Bump(@, key),
                                !.checks = Bump(@, key),
                                !.probe_pins = Bump(@, key),
                                !.aborted = IF hard THEN Some(key) ELSE @,
                                !.events = ProbeEvents(hard),
                                !.observed = Insert_kv(@, key, t[package_name])]
          IN
          /\ ~InLedger(old_check, version)
          /\ IF ~ProbeContinues(hard)
             THEN /\ restore_ok
                  /\ pc' = AfterResolve(FALSE)
                  /\ tree' = t
                  /\ comparison_count' = comparison_count + 1
                  /\ hist' = h
                  /\ pin_failures' = fails
                  /\ UNCHANGED <<verdict, search, old_check, cur,
                                 packages_requirements, finished>>
             ELSE \E is_valid \in BOOLEAN :
                  /\ Deterministic(t, is_valid)
                  /\ verdict' = Insert_kv(verdict, t, is_valid)
                  /\ Advance(AfterQuery(search, idx, is_valid), t,
                             Memoize(old_check, version, is_valid),
                             comparison_count + 1, h, fails, restore_ok)
    /\ UNCHANGED <<inputs, packages, run, first_requirements>>

\* a loop iteration whose version is in the ledger: the recorded verdict
LedgerHit(restore_ok) ==
    /\ pc = "search"
    /\ LET idx == QueryIndex(search, Len(versions)) IN
       /\ idx # None
       /\ LET version == At(versions, idx)
              key == <<package_name, version>>
          IN
          /\ InLedger(old_check, version)
          /\ Advance(AfterQuery(search, idx, old_check[version]), tree,
                     old_check, comparison_count,
                     [hist EXCEPT !.queries = Bump(@, key)],
                     pin_failures, restore_ok)
    /\ UNCHANGED <<inputs, packages, verdict, run, first_requirements>>

\* a loop iteration that breaks because the two indices are adjacent
LoopBreak(restore_ok) ==
    /\ pc = "search"
    /\ QueryIndex(search, Len(versions)) = None
    /\ Advance(NextLoop(search), tree, old_check, comparison_count, hist,
               pin_failures, restore_ok)
    /\ UNCHANGED <<inputs, packages, verdict, run, first_requirements>>

\* ------------------------------------------- resolve: the baseline check
\* a baseline whose result is dropped
BaselineContinues_always(hard, pass) == TRUE

\* the ? on the result of the baseline run_check: resolve goes on only when
\* the check returned Ok
BaselineContinues(hard, pass) == ~hard /\ pass


Baseline(hard, pass) ==
    /\ pc = "baseline"
    /\ LET t == set_dependencies(tree, packages)
           next == EnterPackage(1)
           h == [hist EXCEPT !.baseline_checks = @ + 1,
                             !.baseline_ok = ~hard /\ pass]
       IN
       /\ tree' = t
       /\ hist' = h
       /\ IF hard
          THEN pass /\ verdict' = verdict
          ELSE Deterministic(t, pass) /\ verdict' = Insert_kv(verdict, t, pass)
       /\ IF BaselineContinues(hard, pass)
          THEN /\ pc' = next.pc
               /\ cur' = next.cur
               /\ search' = next.search
          ELSE /\ pc' = AfterResolve(FALSE)
               /\ UNCHANGED <<cur, search>>
    /\ old_check' = EmptyMap
    /\ comparison_count' = 0
    /\ UNCHANGED <<inputs, packages_requirements, packages, pin_failures,
                   finished, run, first_requirements>>

\* ------------------------------- write_cargo_toml_with_resolved_versions
\* one iteration of the loop over packages_requirements; the result of
\* set_dependency_req is dropped
WriteRequirement(ok) ==
    /\ pc = "write"
    /\ ok \/ pin_failures < MaxPinFailures
    /\ LET names == Keys(packages_requirements) IN
       IF cur > Len(names)
       THEN /\ ok
            /\ pc' = "clean"
            /\ UNCHANGED <<tree, hist, pin_failures, cur>>
       ELSE /\ tree' = set_dependency_req(tree, names[cur],
                                          packages_requirements[names[cur]], ok)
            /\ hist' = [hist EXCEPT !.written = @ \cup {names[cur]},
                                    !.write_count = @ + 1,
                                    !.write_failed = @ \/ ~ok]
            /\ pin_failures' = IF ok THEN pin_failures ELSE pin_failures + 1
            /\ cur' = cur + 1
            /\ pc' = pc
    /\ UNCHANGED <<inputs, packages_requirements, packages, verdict, search,
                   old_check, comparison_count, finished, run,
                   first_requirements>>

\* Resolver::clean
Clean ==
    /\ pc = "clean"
    /\ pc' = "done"
    /\ hist' = [hist EXCEPT !.cleaned = TRUE]
    /\ UNCHANGED <<inputs, packages_requirements, packages, tree, verdict,
                   cur, search, old_check, comparison_count, pin_failures,
                   finished, run, first_requirements>>

\* -------------------------------------------------------- the command runs
Dependency(name, req, git) ==
    [crate_name |-> name, required_version |-> req, git |-> git]

LockPackage(name, version) == [name |-> name, version |-> version]

\* catalog entries of the two registry dependencies of the modelled manifest
CatalogsA ==
    {Window(6, 4, None, FALSE), Window(6, 4, 7, TRUE), Window(8, 4, 9, TRUE),
     Window(6, 1, 6, FALSE), Window(6, 2, 7, FALSE), Window(6, 3, 8, TRUE)}

CatalogsB == {Window(1, 3, 2, FALSE), Window(3, 2, 4, TRUE)}

\* declared requirements: *, ^1, >=1.1.0
RequirementsA ==
    {STAR, <<Comparator("Caret", 1, None, None, 0)>>,
     <<Comparator("GreaterEq", 1, 1, 0, 0)>>}

\* lock entries: none, or one version
LocksA == {<<>>} \cup {<<LockPackage("a", Universe(i))>> : i \in {4, 6, 7, 8, 9}}

LocksB == {<<>>} \cup {<<LockPackage("b", Universe(i))>> : i \in {2, 3}}

\* the state after Resolver::new, for every manifest, lock file and catalog
InitRun ==
    \E ca \in CatalogsA, ra \in RequirementsA, la \in LocksA,
       with_b \in BOOLEAN, with_g \in BOOLEAN :
    \E cb \in IF with_b THEN CatalogsB ELSE {<<>>},
       lb \in IF with_b THEN LocksB ELSE {<<>>} :
       /\ targets = <<Dependency("a", ra, FALSE)>>
                    \o (IF with_b THEN <<Dependency("b", STAR, FALSE)>> ELSE <<>>)
                    \o (IF with_g THEN <<Dependency("g", STAR, TRUE)>> ELSE <<>>)
       /\ lock_file = [exists |-> la \o lb # <<>>, packages |-> la \o lb]
       /\ package_informations =
              [n \in {"a"} \cup (IF with_b THEN {"b"} ELSE {}) |->
                  IF n = "a" THEN ca ELSE cb]
    /\ warn_enabled \in BOOLEAN
    /\ packages_requirements = EmptyMap
    /\ packages = EmptyMap
    /\ tree = [n \in {targets[i].crate_name : i \in 1..Len(targets)} |->
                  targets[CHOOSE i \in 1..Len(targets) :
                              targets[i].crate_name = n].required_version]
    /\ verdict = EmptyMap
    /\ pc = "populate_default"
    /\ cur = 1
    /\ search = NoSearch
    /\ old_check = EmptyMap
    /\ comparison_count = 0
    /\ pin_failures = 0
    /\ finished = NoFinished
    /\ hist = NoHist
    /\ run = 1
    /\ first_requirements = EmptyMap
    /\ cache = NoCache

Init == InitRun

\* every step of the command, with every answer of cargo
Next ==
    \/ PopulateDefault
    \/ RepairSeeds
    \/ \E hard \in BOOLEAN, pass \in BOOLEAN : Baseline(hard, pass)
    \/ \E pin_ok \in BOOLEAN, hard \in BOOLEAN, restore_ok \in BOOLEAN :
          Probe(pin_ok, hard, restore_ok)
    \/ \E restore_ok \in BOOLEAN : LedgerHit(restore_ok)
    \/ \E restore_ok \in BOOLEAN : LoopBreak(restore_ok)
    \/ \E ok \in BOOLEAN : WriteRequirement(ok)
    \/ Clean

Spec == Init /\ [][Next]_vars

\* --------------------------------------------- resolve_package on its own
\* the state in which resolve_package is entered for a single dependency "a":
\* any catalog entry cut from the universe, any non-yanked seed; the verdict
\* of every candidate is drawn here when the entry is short, and when the
\* candidate is first checked otherwise
InitSearch ==
    /\ \E len \in 1..MaxLen :
       \E lo \in 0..(NumVersions - len),
          newest_first \in IF len <= MaxYankLen THEN BOOLEAN ELSE {FALSE},
          yank \in {None} \cup (IF len <= MaxYankLen THEN 0..(NumVersions - 1) ELSE {}) :
          /\ yank = None \/ (lo <= yank /\ yank < lo + len)
          /\ package_informations = [n \in {"a"} |-> Window(lo, len, yank, newest_first)]
    /\ NonYanked(package_informations["a"]) # <<>>
    /\ \E seed \in Range(SortedVersions("a")) : packages = [n \in {"a"} |-> seed]
    /\ tree = [n \in {"a"} |-> ExactReq(packages["a"])]
    /\ IF Len(SortedVersions("a")) <= MaxArbLen
       THEN \E passing \in SUBSET Range(SortedVersions("a")) :
               verdict = [t \in {[n \in {"a"} |-> ExactReq(v)] :
                                    v \in Range(SortedVersions("a"))} |->
                             \E v \in passing : t["a"] = ExactReq(v)]
       ELSE verdict = EmptyMap
    /\ targets = <<Dependency("a", STAR, FALSE)>>
    /\ lock_file = [exists |-> FALSE, packages |-> <<>>]
    /\ warn_enabled = TRUE
    /\ packages_requirements = [n \in {"a"} |-> STAR]
    /\ pc = "search"
    /\ cur = 1
    /\ search = StartSearch(SortedVersions("a"), packages["a"])
    /\ old_check = EmptyMap
    /\ comparison_count = 0
    /\ pin_failures = 0
    /\ finished = NoFinished
    /\ hist = [NoHist EXCEPT !.baseline_checks = 1, !.baseline_ok = TRUE]
    /\ run = 1
    /\ first_requirements = EmptyMap
    /\ cache = NoCache

\* the loop iterations of the search with a validator that pins and answers
NextSearch ==
    \/ Probe(TRUE, FALSE, TRUE)
    \/ LedgerHit(TRUE)
    \/ LoopBreak(TRUE)

SpecSearch == InitSearch /\ [][NextSearch]_vars

\* ------------------------------------------- running the command twice
\* the second run: the manifest declares what the first run wrote, the lock
\* file, the catalog and the verdicts are those of the first run
Redeclare(deps, reqs) ==
    [i \in 1..Len(deps) |->
        IF deps[i].crate_name \in DOMAIN reqs
        THEN [deps[i] EXCEPT !.required_version = reqs[deps[i].crate_name]]
        ELSE deps[i]]

Rerun ==
    /\ pc = "done"
    /\ run = 1
    /\ run' = 2
    /\ first_requirements' = packages_requirements
    /\ targets' = Redeclare(targets, packages_requirements)
    /\ packages_requirements' = EmptyMap
    /\ packages' = EmptyMap
    /\ pc' = "populate_default"
    /\ cur' = 1
    /\ search' = NoSearch
    /\ old_check' = EmptyMap
    /\ comparison_count' = 0
    /\ finished' = NoFinished
    /\ hist' = NoHist
    /\ UNCHANGED <<lock_file, package_informations, warn_enabled, tree,
                   verdict, pin_failures, cache>>

\* both runs with a cargo that always pins and never fails to start
NextTwice ==
    \/ PopulateDefault
    \/ RepairSeeds
    \/ \E pass \in BOOLEAN : Baseline(FALSE, pass)
    \/ Probe(TRUE, FALSE, TRUE)
    \/ LedgerHit(TRUE)
    \/ LoopBreak(TRUE)
    \/ WriteRequirement(TRUE)
    \/ Clean
    \/ Rerun

SpecTwice == Init /\ [][NextTwice]_vars

\* --------------------------------------- the search under a fair scheduler
\* resolve_package entered for a list of any length without yanked versions
\* and any seed of it, the verdict of a candidate drawn when it is first
\* checked
InitBisect ==
    /\ \E len \in 1..MaxLen :
          package_informations = [n \in {"a"} |-> Window(0, len, None, FALSE)]
    /\ \E seed \in Range(SortedVersions("a")) : packages = [n \in {"a"} |-> seed]
    /\ tree = [n \in {"a"} |-> ExactReq(packages["a"])]
    /\ verdict = EmptyMap
    /\ targets = <<Dependency("a", STAR, FALSE)>>
    /\ lock_file = [exists |-> FALSE, packages |-> <<>>]
    /\ warn_enabled = TRUE
    /\ packages_requirements = [n \in {"a"} |-> STAR]
    /\ pc = "search"
    /\ cur = 1
    /\ search = StartSearch(SortedVersions("a"), packages["a"])
    /\ old_check = EmptyMap
    /\ comparison_count = 0
    /\ pin_failures = 0
    /\ finished = NoFinished
    /\ hist = [NoHist EXCEPT !.baseline_checks = 1, !.baseline_ok = TRUE]
    /\ run = 1
    /\ first_requirements = EmptyMap
    /\ cache = NoCache

\* binary_search_bounds runs to its end once called: no loop iteration waits
\* for anything but the validator, which answers. This is the weak fairness
\* WF_vars(NextSearch) with ENABLED <<NextSearch>>_vars written as
\* pc = "search": in the search one of the three iterations can always be taken
NextSearchFair == []<>(pc # "search") \/ []<><<NextSearch>>_vars

SpecSearchFair == InitBisect /\ [][NextSearch]_vars /\ NextSearchFair

\* --------------------------------- two searches over the same verdicts
\* resolve_package entered for a list without yanked versions, every verdict
\* drawn beforehand
InitSeeds ==
    /\ \E len \in 1..MaxArbLen :
       \E lo \in 0..(NumVersions - len) :
          package_informations = [n \in {"a"} |-> Window(lo, len, None, FALSE)]
    /\ \E seed \in Range(SortedVersions("a")) : packages = [n \in {"a"} |-> seed]
    /\ tree = [n \in {"a"} |-> ExactReq(packages["a"])]
    /\ \E passing \in SUBSET Range(SortedVersions("a")) :
          verdict = [t \in {[n \in {"a"} |-> ExactReq(v)] :
                               v \in Range(SortedVersions("a"))} |->
                        \E v \in passing : t["a"] = ExactReq(v)]
    /\ targets = <<Dependency("a", STAR, FALSE)>>
    /\ lock_file = [exists |-> FALSE, packages |-> <<>>]
    /\ warn_enabled = TRUE
    /\ packages_requirements = [n \in {"a"} |-> STAR]
    /\ pc = "search"
    /\ cur = 1
    /\ search = StartSearch(SortedVersions("a"), packages["a"])
    /\ old_check = EmptyMap
    /\ comparison_count = 0
    /\ pin_failures = 0
    /\ finished = NoFinished
    /\ hist = [NoHist EXCEPT !.baseline_checks = 1, !.baseline_ok = TRUE]
    /\ run = 1
    /\ first_requirements = EmptyMap
    /\ cache = NoCache

\* resolve_package called again for the same package, catalog entry and
\* validator, from another seed
Reseed ==
    /\ pc = "write"
    /\ run = 1
    /\ run' = 2
    /\ first_requirements' = packages_requirements
    /\ \E seed \in Range(SortedVersions("a")) \ {packages["a"]} :
          /\ packages' = [n \in {"a"} |-> seed]
          /\ tree' = [n \in {"a"} |-> ExactReq(seed)]
          /\ search' = StartSearch(SortedVersions("a"), seed)
    /\ packages_requirements' = [n \in {"a"} |-> STAR]
    /\ pc' = "search"
    /\ cur' = 1
    /\ old_check' = EmptyMap
    /\ comparison_count' = 0
    /\ finished' = NoFinished
    /\ hist' = [NoHist EXCEPT !.baseline_checks = 1, !.baseline_ok = TRUE,
                              !.first_seed = Some(packages["a"])]
    /\ UNCHANGED <<inputs, verdict, pin_failures>>

NextSeeds ==
    \/ Probe(TRUE, FALSE, TRUE)
    \/ LedgerHit(TRUE)
    \/ LoopBreak(TRUE)
    \/ Reseed

SpecSeeds == InitSeeds /\ [][NextSeeds]_vars

\* ------------------------------------------------------------ the crate cache
\* the crates the cache is asked for
CacheNames == {"a", "b"}

\* now.signed_duration_since(entry.last_fetched_at)
Age(now, entry) == now - entry.last_fetched_at

\* a cache that serves an entry whose age equals the validity
Fresh_inclusive(age, cache_validity) == age <= cache_validity

\* age < cache_validity
Fresh(age, cache_validity) == age < cache_validity

\* retrieve_packages_no_fetch: the entries of the requested names that are
\* fresh at the time of the call
retrieve_packages_no_fetch(entries, crate_names, cache_validity, now) ==
    LET hits == {name \in crate_names \cap DOMAIN entries :
                    Fresh(Age(now, entries[name]), cache_validity)}
    IN [name \in hits |-> entries[name].krate]

\* the names retrives_packages_fetch hands to download_crates
ToFetch(found, crate_names) == {name \in crate_names : name \notin DOMAIN found}

\* what download_crates returns for a name at a time
Download(name, at) == [name |-> name, downloaded_at |-> at]

\* the state after CrateCache::load_from_path of a missing cache file
InitCache ==
    /\ cache = NoCache
    /\ targets = <<>>
    /\ lock_file = [exists |-> FALSE, packages |-> <<>>]
    /\ package_informations = EmptyMap
    /\ warn_enabled = TRUE
    /\ packages_requirements = EmptyMap
    /\ packages = EmptyMap
    /\ tree = EmptyMap
    /\ verdict = EmptyMap
    /\ pc = "cache"
    /\ cur = 1
    /\ search = NoSearch
    /\ old_check = EmptyMap
    /\ comparison_count = 0
    /\ pin_failures = 0
    /\ finished = NoFinished
    /\ hist = NoHist
    /\ run = 1
    /\ first_requirements = EmptyMap

resolver_state ==
    <<targets, lock_file, package_informations, warn_enabled,
      packages_requirements, packages, tree, verdict, pc, cur, search,
      old_check, comparison_count, pin_failures, finished, hist, run,
      first_requirements>>

\* time passes between two uses of the cache
Tick ==
    /\ pc = "cache"
    /\ cache.now < MaxTime
    /\ cache' = [cache EXCEPT !.now = @ + 1]
    /\ UNCHANGED resolver_state

\* a call of retrieve_packages_no_fetch
RetrieveNoFetch(crate_names, cache_validity) ==
    /\ pc = "cache"
    /\ LET found == retrieve_packages_no_fetch(cache.entries, crate_names,
                                               cache_validity, cache.now)
       IN cache' = [cache EXCEPT !.last =
                       [op |-> "no_fetch", names |-> crate_names,
                        validity |-> cache_validity, now |-> cache.now,
                        before |-> cache.entries, found |-> found,
                        fetched |-> {}, ok |-> TRUE, packages |-> found,
                        stored_at |-> cache.now]]
    /\ UNCHANGED resolver_state

\* a call of retrives_packages_fetch; the download succeeds or not and takes
\* delay units of time
RetrieveFetch(crate_names, cache_validity, download_ok, delay) ==
    /\ pc = "cache"
    /\ cache.now + delay <= MaxTime
    /\ LET found == retrieve_packages_no_fetch(cache.entries, crate_names,
                                               cache_validity, cache.now)
           to_fetch == ToFetch(found, crate_names)
           now == cache.now + delay
           last == [op |-> "fetch", names |-> crate_names,
                    validity |-> cache_validity, now |-> cache.now,
                    before |-> cache.entries, found |-> found,
                    fetched |-> to_fetch, ok |-> TRUE, packages |-> found,
                    stored_at |-> now]
       IN IF to_fetch = {}
          THEN /\ delay = 0 /\ download_ok
               /\ cache' = [cache EXCEPT !.last = last]
          ELSE IF ~download_ok
          THEN cache' = [cache EXCEPT
                            !.now = now,
                            !.last = [last EXCEPT !.ok = FALSE,
                                                  !.packages = EmptyMap]]
          ELSE cache' =
                 [entries |->
                     [name \in DOMAIN cache.entries \cup to_fetch |->
                         IF name \in to_fetch
                         THEN [krate |-> Download(name, now), last_fetched_at |-> now]
                         ELSE cache.entries[name]],
                  now |-> now,
                  last |-> [last EXCEPT !.packages =
                               [name \in DOMAIN found \cup to_fetch |->
                                   IF name \in to_fetch
                                   THEN Download(name, now) ELSE found[name]]]]
    /\ UNCHANGED resolver_state

NextCache ==
    \/ Tick
    \/ \E crate_names \in SUBSET CacheNames \ {{}}, cache_validity \in 0..MaxValidity :
          RetrieveNoFetch(crate_names, cache_validity)
    \/ \E crate_names \in SUBSET CacheNames \ {{}}, cache_validity \in 0..MaxValidity,
          download_ok \in BOOLEAN, delay \in 0..1 :
          RetrieveFetch(crate_names, cache_validity, download_ok, delay)

SpecCache == InitCache /\ [][NextCache]_vars

\* ================================================================ properties

\* C1: in one run the memoizer calls run_check, and pins, at most once for
\* every dependency and version, however often the search asks for the
\* version; the further queries are answered from the ledger.
C1_ProbedAtMostOnce ==
    \A k \in DOMAIN hist.queries :
        /\ Count(hist.checks, k) <= 1
        /\ Count(hist.probe_pins, k) <= 1
        /\ Count(hist.checks, k) <= hist.queries[k]

\* a version asked for twice and checked once
C1_Witness ==
    \E k \in DOMAIN hist.queries : hist.queries[k] >= 2 /\ Count(hist.checks, k) = 1

\* C6: the baseline check runs at most once, it has run exactly once and
\* returned success whenever a probe has been issued or resolve is past it.
C6_BaselineOnceBeforeProbes ==
    /\ hist.baseline_checks <= 1
    /\ (DOMAIN hist.checks # {} \/ pc \in {"search", "write", "clean", "done"})
          => (hist.baseline_checks = 1 /\ hist.baseline_ok)
    /\ pc \in {"populate_default", "resolve", "baseline"}
          => (hist.baseline_checks = 0 /\ DOMAIN hist.checks = {})

\* a probe has been issued after the one baseline check
C6_Witness ==
    /\ DOMAIN hist.checks # {}
    /\ hist.baseline_checks = 1
    /\ pc = "search"

\* C7: once resolve_package has returned for a dependency, the manifest pins
\* the dependency at its seed (until the write-back replaces the pin).
C7_PinRestored ==
    \A d \in hist.searched \ hist.written : tree[d] = ExactReq(packages[d])

\* C8: after the repair loop every seed is a version of the dependency's
\* catalog entry that is not yanked, and binary_search_bounds finds it.
C8_SeedsUsable ==
    (pc = "baseline" \/ hist.baseline_checks >= 1) =>
        /\ pc # "panicked"
        /\ \A d \in DOMAIN packages :
              /\ d \in DOMAIN package_informations
              /\ \E i \in 1..Len(package_informations[d]) :
                    /\ package_informations[d][i].version = packages[d]
                    /\ ~package_informations[d][i].yanked
              /\ Position(SortedVersions(d), packages[d]) # None

\* a search running from a seed that the repair loop had to replace
C8_Witness ==
    /\ pc = "search"
    /\ \E d \in DOMAIN packages :
          \A i \in 1..Len(lock_file.packages) :
              lock_file.packages[i].name = d => lock_file.packages[i].version # packages[d]

\* ------------------------------------------ properties of a single search
\* the search of dependency "a" has returned
Returned == finished.name = "a"

\* the manifest that pins "a" at v, and the verdict of the check on it
Pinned(v) == [n \in {"a"} |-> ExactReq(v)]

VerdictKnown == \A v \in Range(finished.versions) : Pinned(v) \in DOMAIN verdict

Passes(v) == verdict[Pinned(v)]

SeedVersion == At(finished.versions, finished.seed)

\* the passing versions form one run of the sorted list
ContiguousPass ==
    \A i, j, k \in 0..(Len(finished.versions) - 1) :
        (i <= k /\ k <= j /\ Passes(At(finished.versions, i))
            /\ Passes(At(finished.versions, j)))
        => Passes(At(finished.versions, k))

\* the ends of the interval the two loops settled on
LowerEnd == IF finished.search.left_invalid = None THEN 0
            ELSE finished.search.left_valid

UpperEnd == IF finished.search.right_invalid = None THEN Len(finished.versions) - 1
            ELSE finished.search.right_valid

GreaterEqOf(v) == Comparator("GreaterEq", v.major, v.minor, v.patch, v.pre)

LessEqOf(v) == Comparator("LessEq", v.major, v.minor, v.patch, v.pre)

\* C2: when the seed passes and the passing versions form one run of V, the
\* searcher returns the interval [V[l], V[r]] around the seed that is exactly
\* that run: all of l..r pass, V[l-1] and V[r+1] fail where they exist, and
\* the raw requirement bounds the interval on the sides that have a failure.
C2_MaximalRun ==
    (Returned /\ VerdictKnown /\ Passes(SeedVersion) /\ ContiguousPass) =>
        LET V == finished.versions
            n == Len(V)
        IN /\ LowerEnd <= finished.seed /\ finished.seed <= UpperEnd
           /\ \A i \in LowerEnd..UpperEnd : Passes(At(V, i))
           /\ LowerEnd > 0 => ~Passes(At(V, LowerEnd - 1))
           /\ UpperEnd < n - 1 => ~Passes(At(V, UpperEnd + 1))
           /\ finished.raw =
                 (IF LowerEnd > 0 THEN <<GreaterEqOf(At(V, LowerEnd))>> ELSE <<>>)
                 \o (IF UpperEnd < n - 1 THEN <<LessEqOf(At(V, UpperEnd))>> ELSE <<>>)

\* a run strictly inside V, found around a seed that is neither of its ends
C2_Witness ==
    /\ Returned /\ VerdictKnown /\ Passes(SeedVersion) /\ ContiguousPass
    /\ 0 < LowerEnd /\ LowerEnd < finished.seed
    /\ finished.seed < UpperEnd /\ UpperEnd < Len(finished.versions) - 1

\* C3 as stated: whenever the seed passes, every version the returned
\* requirement matches passes the check.
C3_InnerInterval ==
    (Returned /\ VerdictKnown /\ Passes(SeedVersion)) =>
        \A v \in MatchSet(finished.output_req, finished.versions) : Passes(v)

\* C3 amended: whenever the seed passes, every version the returned
\* requirement matches and the search has checked passed its check, and the
\* two ends of the returned interval pass.
C3_InnerOfProbed ==
    (Returned /\ VerdictKnown /\ Passes(SeedVersion)) =>
        /\ \A v \in MatchSet(finished.output_req, finished.versions) :
              v \in DOMAIN finished.ledger => finished.ledger[v]
        /\ Passes(At(finished.versions, finished.search.left_valid))
        /\ Passes(At(finished.versions, finished.search.right_valid))
        /\ \A v \in DOMAIN finished.ledger : finished.ledger[v] = Passes(v)

\* passing versions that are not one run, with a checked version other than
\* the seed inside the returned requirement
C3_Witness ==
    /\ Returned /\ VerdictKnown /\ Passes(SeedVersion) /\ ~ContiguousPass
    /\ \E v \in MatchSet(finished.output_req, finished.versions) :
          v \in DOMAIN finished.ledger /\ v # SeedVersion

\* the probe of the seed, if there was one, did not fail
SeedNotRefuted ==
    SeedVersion \in DOMAIN finished.ledger => finished.ledger[SeedVersion]

Carets ==
    {<<Comparator("Caret", x, y, z, 0)>> :
        x \in 0..(NumVersions \div 5), y \in {None, 0, 1, 2}, z \in {None, 0, 1}}
    \ {<<Comparator("Caret", x, None, z, 0)>> :
        x \in 0..(NumVersions \div 5), z \in {0, 1}}

Specificity(req) ==
    IF req[1].minor = None THEN 1 ELSE IF req[1].patch = None THEN 2 ELSE 3

\* the caret requirements that match exactly the matched set of the raw one
CaretsFor(raw, V) == {c \in Carets : MatchSet(c, V) = MatchSet(raw, V)}

LeastSpecificCaret(req, raw, V) ==
    /\ req \in CaretsFor(raw, V)
    /\ \A c \in CaretsFor(raw, V) : Specificity(req) <= Specificity(c)

\* C5 as stated: a raw interval whose matched set is that of a caret
\* requirement is simplified to the least specific such caret requirement,
\* also when it matches all of V or a single version.
C5_CaretAlways ==
    (Returned /\ SeedNotRefuted /\ finished.raw # <<>>
        /\ CaretsFor(finished.raw, finished.versions) # {}) =>
        LeastSpecificCaret(finished.output_req, finished.raw, finished.versions)

\* C5 amended: a raw interval that matches at least two versions but not all
\* of V, and whose matched set is that of a caret requirement, is simplified
\* to the least specific such caret requirement.
C5_CaretUnlessStarOrExact ==
    (Returned /\ SeedNotRefuted /\ finished.raw # <<>>
        /\ CaretsFor(finished.raw, finished.versions) # {}
        /\ Cardinality(MatchSet(finished.raw, finished.versions)) >= 2
        /\ \E v \in Range(finished.versions) : ~Matches(finished.raw, v)) =>
        LeastSpecificCaret(finished.output_req, finished.raw, finished.versions)

\* an interval simplified to a caret requirement ^x.y
C5_Witness ==
    /\ Returned /\ SeedNotRefuted /\ finished.raw # <<>>
    /\ Cardinality(MatchSet(finished.raw, finished.versions)) >= 2
    /\ finished.output_req \in CaretsFor(finished.raw, finished.versions)
    /\ Specificity(finished.output_req) = 2

RECURSIVE CeilLog2From(_, _, _)
CeilLog2From(m, k, p) == IF p >= m THEN k ELSE CeilLog2From(m, k + 1, 2 * p)

\* the least k with 2^k >= m
CeilLog2(m) == CeilLog2From(m, 0, 1)

ProbeBound(n) == 2 * CeilLog2(n + 1) + 2

\* C9: a search over n non-yanked versions issues at most
\* 2*ceil(log2(n+1)) + 2 validator checks, whatever the seed and the verdicts.
C9_ProbeBound ==
    /\ pc = "search" => comparison_count <= ProbeBound(Len(versions))
    /\ Returned => finished.comparisons <= ProbeBound(Len(finished.versions))

\* a finished search over at least eight versions that needed five checks
C9_Witness ==
    /\ Returned
    /\ Len(finished.versions) >= 8
    /\ finished.comparisons >= 5

\* ------------------------------------------------ properties of two runs
\* C10: the run on the requirements the first run produced, with the same
\* lock file, catalog and verdicts, returns the same requirements.
C10_Idempotent ==
    run = 2 =>
        /\ pc # "panicked"
        /\ pc \in {"write", "clean", "done"}
              => packages_requirements = first_requirements

\* the second run returns, with other requirements than the first
C10_SecondRunDiffers ==
    ~(run = 2 /\ pc = "done" /\ packages_requirements # first_requirements)

\* --------------------------------------------------- properties of the seeds
\* the requirements the manifest declares for its registry dependencies
Declared == DeclaredRequirements(targets, EmptyMap)

\* the version populate_default adopts from Cargo.lock for d, if any
LockSeed(d) ==
    IF lock_file.exists THEN FindLock(lock_file.packages, d, Declared[d])
    ELSE Nothing

CatalogMatching(d) ==
    {v \in Range(VersionsOf(package_informations[d])) : Matches(Declared[d], v)}

NonYankedMatching(d) ==
    {v \in Range(VersionsOf(NonYanked(package_informations[d]))) :
        Matches(Declared[d], v)}

YankedInCatalog(d, v) ==
    \E i \in 1..Len(package_informations[d]) :
        /\ package_informations[d][i].version = v
        /\ package_informations[d][i].yanked

\* the first loop of resolve has run to its end
RepairDone == pc = "baseline" \/ hist.baseline_checks >= 1

\* C11: when populate_default has returned, every declared registry dependency
\* without a lock entry that satisfies its requirement is seeded with the
\* greatest catalog version that satisfies the requirement, and a run without
\* a lock file does not stop in a panic.
C11_MissingLockSeeded ==
    /\ pc = "resolve" =>
          \A d \in DOMAIN Declared :
              (LockSeed(d) = Nothing /\ CatalogMatching(d) # {}) =>
                  /\ d \in DOMAIN packages
                  /\ packages[d] = MaxVersion(CatalogMatching(d))
    /\ (~lock_file.exists /\ \A d \in DOMAIN Declared : CatalogMatching(d) # {})
          => pc # "panicked"

\* C12: when the repair loop has ended, a dependency whose lock seed is in the
\* catalog entry, marked yanked, and whose requirement is matched by some
\* non-yanked version has the greatest such version for its seed.
C12_YankedSeedRepaired ==
    RepairDone =>
        \A d \in DOMAIN Declared :
            (/\ LockSeed(d) # Nothing
             /\ YankedInCatalog(d, Unwrap(LockSeed(d)))
             /\ NonYankedMatching(d) # {})
            => packages[d] = MaxVersion(NonYankedMatching(d))

\* a yanked lock seed replaced by a version that is not the greatest non-yanked
\* one of the entry, because that one does not satisfy the requirement
C12_Witness ==
    /\ pc = "baseline"
    /\ \E d \in DOMAIN Declared :
          /\ LockSeed(d) # Nothing
          /\ YankedInCatalog(d, Unwrap(LockSeed(d)))
          /\ NonYankedMatching(d) # {}
          /\ packages[d] = MaxVersion(NonYankedMatching(d))
          /\ packages[d] # MaxVersion(Range(VersionsOf(NonYanked(package_informations[d]))))

\* ------------------------------------------------- properties of the errors
\* C13: a hard error of run_check in the probe of version v ends the run in
\* failure at once: the ledger of the running search has no verdict for v,
\* the version was checked once, and the search of the dependency has not
\* returned a requirement.
C13_HardErrorAborts ==
    hist.aborted # Nothing =>
        LET key == Unwrap(hist.aborted) IN
        /\ pc = "failed"
        /\ key[1] = package_name
        /\ key[2] \notin DOMAIN old_check
        /\ Count(hist.checks, key) = 1
        /\ key[1] \notin hist.searched
        /\ packages_requirements[key[1]] = Declared[key[1]]

\* a hard error in a search that had recorded a verdict before
C13_Witness ==
    /\ hist.aborted # Nothing
    /\ pc = "failed"
    /\ DOMAIN old_check # {}

\* the ledger of the search that was running, after a step that may end it
LedgerAfter == IF hist'.searched # hist.searched THEN finished'.ledger ELSE old_check'

\* C14: a probe whose check returns a verdict, passing or not, records that
\* verdict in the ledger and the run goes on, and a run ends in failure only
\* before the baseline check (seed selection), on a baseline that did not
\* succeed, or on a hard error of a probe.
C14_Step ==
    /\ (pc = "search" /\ hist'.checks # hist.checks /\ hist'.aborted = Nothing) =>
          LET version == At(versions, QueryIndex(search, Len(versions))) IN
          /\ version \in DOMAIN LedgerAfter
          /\ \E pin_ok \in BOOLEAN :
                LET t == set_dependency(tree, package_name, version, pin_ok) IN
                t \in DOMAIN verdict' /\ LedgerAfter[version] = verdict'[t]
          /\ pc' \in {"search", "write"}
    /\ pc' \in {"failed", "panicked"} =>
          \/ hist'.baseline_checks = 0
          \/ ~hist'.baseline_ok
          \/ hist'.aborted # Nothing

C14_ValidationFailureIsDatum == [][C14_Step]_vars

\* a run that reached its end although a probe failed its check
C14_Witness ==
    /\ pc = "done"
    /\ \E v \in DOMAIN finished.ledger : ~finished.ledger[v]

\* C15: after a baseline check that did not succeed the run has failed without
\* any probe, probe pin or write-back, and after a hard error of a probe the
\* run has failed without any write-back.
C15_AbortWritesNothing ==
    /\ (hist.baseline_checks = 1 /\ ~hist.baseline_ok) =>
          /\ pc = "failed"
          /\ hist.write_count = 0 /\ hist.written = {}
          /\ DOMAIN hist.checks = {} /\ DOMAIN hist.probe_pins = {}
          /\ hist.searched = {}
    /\ hist.aborted # Nothing =>
          /\ pc = "failed"
          /\ hist.write_count = 0 /\ hist.written = {}
    /\ pc = "failed" => hist.write_count = 0 /\ ~hist.cleaned

\* a run aborted by a hard error in the search of its second dependency, the
\* first one resolved and not written
C15_Witness ==
    /\ pc = "failed"
    /\ hist.aborted # Nothing
    /\ hist.searched # {}
    /\ hist.write_count = 0

\* --------------------------------------------- properties of the write-back
\* C16: a write-back is issued only when every search has returned (its last
\* probe and its pin restore done), each write-back is for a dependency not
\* written before, no probe or search step follows a write-back, and clean is
\* called once every resolved dependency has been written exactly once.
C16_Step ==
    /\ hist'.write_count # hist.write_count =>
          /\ pc = "write"
          /\ hist.searched = DOMAIN package_informations
          /\ hist'.write_count = hist.write_count + 1
          /\ \E d \in hist.searched \ hist.written : hist'.written = hist.written \cup {d}
    /\ hist.write_count > 0 =>
          /\ hist'.checks = hist.checks
          /\ hist'.probe_pins = hist.probe_pins
          /\ hist'.queries = hist.queries
          /\ hist'.searched = hist.searched
          /\ hist'.baseline_checks = hist.baseline_checks
    /\ (hist'.cleaned /\ ~hist.cleaned) =>
          /\ hist.written = hist.searched
          /\ hist.write_count = Cardinality(hist.searched)
    /\ hist.cleaned => hist' = hist

C16_WriteBackLast == [][C16_Step]_vars

\* a finished run that wrote the requirements of two dependencies
C16_Witness ==
    /\ pc = "done"
    /\ hist.cleaned
    /\ hist.write_count = 2
    /\ Cardinality(hist.searched) = 2

\* --------------------------------------------- properties of the seed probe
\* C17 as stated: the ledger of a search never holds the seed version.
C17_SeedNeverProbed ==
    /\ Returned => SeedVersion \notin DOMAIN finished.ledger
    /\ (pc = "search" /\ finished = NoFinished) => packages["a"] \notin DOMAIN old_check

\* C17 amended: a search checks its seed exactly when the seed is the first or
\* the last version of the sorted list; the midpoint checks never reach it.
C17_SeedProbedOnlyAtEnds ==
    /\ Returned =>
          (SeedVersion \in DOMAIN finished.ledger
              <=> finished.seed \in {0, Len(finished.versions) - 1})
    /\ (pc = "search" /\ finished = NoFinished /\ packages["a"] \in DOMAIN old_check) =>
          Position(versions, packages["a"]) \in {0, Len(versions) - 1}

\* three versions that all pass, the seed the first: the seed and the last
\* version have been checked
C17_Witness ==
    /\ Returned
    /\ Len(finished.versions) = 3
    /\ finished.seed = 0
    /\ DOMAIN finished.ledger = {At(finished.versions, 0), At(finished.versions, 2)}
    /\ \A v \in DOMAIN finished.ledger : finished.ledger[v]
    /\ finished.comparisons = 2

\* C18 as stated: the search of a single candidate returns =seed.
C18_SingleExact ==
    (Returned /\ Len(finished.versions) = 1) =>
        finished.output_req = ExactReq(SeedVersion)

\* C18 amended: the search of a single candidate checks it once, answers the
\* second query from the ledger, and returns *.
C18_SingleStar ==
    (Returned /\ Len(finished.versions) = 1) =>
        /\ finished.output_req = STAR
        /\ finished.comparisons = 1
        /\ hist.queries[<<"a", SeedVersion>>] = 2

\* a single candidate that passes its check
C18_Witness ==
    /\ Returned
    /\ Len(finished.versions) = 1
    /\ finished.seed = 0
    /\ SeedVersion \in DOMAIN finished.ledger
    /\ finished.ledger[SeedVersion]

\* -------------------------------------------- properties of git dependencies
\* the names declared with the git flag and not as a registry dependency
GitOnly ==
    {targets[i].crate_name : i \in {j \in 1..Len(targets) : targets[j].git}}
    \ {targets[i].crate_name : i \in {j \in 1..Len(targets) : ~targets[j].git}}

\* C19: a dependency declared only as a git dependency has no seed and no
\* requirement in the result, is never checked, pinned, searched or written,
\* and keeps its declaration in the manifest.
C19_GitSkipped ==
    \A g \in GitOnly :
        /\ g \notin DOMAIN packages
        /\ g \notin DOMAIN packages_requirements
        /\ g \notin DOMAIN package_informations
        /\ g \notin hist.searched
        /\ g \notin hist.written
        /\ \A k \in DOMAIN hist.queries : k[1] # g
        /\ \A i \in 1..Len(targets) :
              targets[i].crate_name = g => tree[g] = targets[i].required_version

\* a finished run of a manifest with a git dependency
C19_Witness ==
    /\ pc = "done"
    /\ GitOnly # {}
    /\ hist.written # {}

\* C20: when a dependency has a lock seed and its catalog entry has no
\* non-yanked version, the run has failed with the error of the repair loop
\* once it has left that loop, before the baseline check, any pin and any
\* probe.
C20_NoUsableVersionFails ==
    (/\ pc \notin {"populate_default", "resolve"}
     /\ \E d \in DOMAIN Declared :
           /\ d \in DOMAIN package_informations
           /\ LockSeed(d) # Nothing
           /\ NonYanked(package_informations[d]) = <<>>) =>
        /\ pc = "failed"
        /\ hist.baseline_checks = 0
        /\ DOMAIN hist.checks = {}
        /\ tree = [n \in DOMAIN tree |->
                      targets[CHOOSE i \in 1..Len(targets) :
                                  targets[i].crate_name = n].required_version]

\* ------------------------------------------------ properties of the probes
\* C21: at every check of a probe in the search of dependency d, every other
\* dependency with a seed is pinned at its seed in the manifest.
C21_Step ==
    (pc = "search" /\ hist'.checks # hist.checks) =>
        \A d \in DOMAIN packages \ {package_name} : tree[d] = ExactReq(packages[d])

C21_OthersAtSeed == [][C21_Step]_vars

Happened(e) == \E i \in 1..Len(hist.events) : hist.events[i] = e

EventIndex(e) == CHOOSE i \in 1..Len(hist.events) : hist.events[i] = e

\* C22 as stated: in a first query the pin comes first, then the cooldown
\* sleep, then the check, then the record of the verdict.
C22_CooldownAfterPin ==
    hist.events # <<>> =>
        /\ Happened("pin") /\ Happened("sleep") /\ Happened("check")
        /\ EventIndex("pin") < EventIndex("sleep")
        /\ EventIndex("sleep") < EventIndex("check")
        /\ Happened("record") => EventIndex("check") < EventIndex("record")

\* C22 amended: in a first query the probe is counted, then the cooldown sleep
\* elapses, then the pin is applied, the check follows the pin directly, and
\* the verdict is recorded after the check unless the check returned a hard
\* error.
C22_CooldownBeforePin ==
    hist.events # <<>> =>
        /\ Happened("count") /\ Happened("pin") /\ Happened("sleep")
        /\ Happened("check")
        /\ EventIndex("count") < EventIndex("sleep")
        /\ EventIndex("sleep") < EventIndex("pin")
        /\ EventIndex("check") = EventIndex("pin") + 1
        /\ Happened("record") <=> hist.aborted = Nothing
        /\ Happened("record") => EventIndex("record") = EventIndex("check") + 1

\* a first query that recorded a verdict, the search going on
C22_Witness ==
    /\ pc = "search"
    /\ Happened("record")
    /\ DOMAIN old_check # {}

\* C23: every check whose verdict is in a ledger for version v ran on a
\* manifest that pinned the dependency at exactly v.
C23_CheckObservesPin ==
    \A key \in DOMAIN hist.observed :
        Some(key) # hist.aborted => hist.observed[key] = ExactReq(key[2])

\* the lock seed of d is not a version of d's catalog entry
SeedMissing(d) ==
    /\ LockSeed(d) # Nothing
    /\ FindVersion(package_informations[d], Unwrap(LockSeed(d))) = Nothing

\* C24: when every dependency has a lock seed and a non-yanked version that
\* matches its requirement, the repair loop ends without a crash and a seed
\* that is missing from the catalog entry has been replaced by the greatest
\* such version.
C24_MissingSeedRepaired ==
    (/\ pc \notin {"populate_default", "resolve"}
     /\ \A d \in DOMAIN Declared :
           LockSeed(d) # Nothing /\ NonYankedMatching(d) # {}) =>
        /\ pc # "panicked"
        /\ \A d \in DOMAIN Declared :
              SeedMissing(d) => packages[d] = MaxVersion(NonYankedMatching(d))

\* C25: when the repair loop has ended, a seed that had to be repaired and
\* whose requirement no non-yanked version matches has been replaced by the
\* greatest non-yanked version of the entry.
C25_FallbackGreatest ==
    RepairDone =>
        \A d \in DOMAIN Declared :
            (/\ LockSeed(d) # Nothing
             /\ SeedMissing(d) \/ YankedInCatalog(d, Unwrap(LockSeed(d)))
             /\ NonYankedMatching(d) = {}
             /\ NonYanked(package_informations[d]) # <<>>)
            => packages[d] =
                  MaxVersion(Range(VersionsOf(NonYanked(package_informations[d]))))

\* C26: every midpoint iteration of a boundary loop strictly reduces the
\* distance between the valid and the invalid index of its side and leaves
\* them distinct, a loop breaks without a query only when the two are at most
\* one apart, and the search ends.
C26_Step ==
    /\ (pc = "search" /\ hist'.queries # hist.queries
           /\ search.loop = "left" /\ search.left_invalid # None) =>
          /\ pc' = "search" /\ search'.loop = "left"
          /\ search'.left_valid - search'.left_invalid
                < search.left_valid - search.left_invalid
          /\ search'.left_valid - search'.left_invalid >= 1
    /\ (pc = "search" /\ hist'.queries # hist.queries
           /\ search.loop = "right" /\ search.right_invalid # None) =>
          /\ pc' = "search" /\ search'.loop = "right"
          /\ search'.right_invalid - search'.right_valid
                < search.right_invalid - search.right_valid
          /\ search'.right_invalid - search'.right_valid >= 1
    /\ (pc = "search" /\ hist'.queries = hist.queries /\ search.loop = "left") =>
          /\ search.left_invalid # None
          /\ search.left_valid - search.left_invalid <= 1
    /\ (pc = "search" /\ hist'.queries = hist.queries /\ search.loop = "right") =>
          /\ search.right_invalid # None
          /\ search.right_invalid - search.right_valid <= 1

C26_Terminates == [][C26_Step]_vars /\ <>(pc # "search")

\* a search that ended after midpoint iterations on both sides
C26_Witness ==
    /\ Returned
    /\ finished.search.left_invalid # None /\ finished.search.left_invalid > 0
    /\ finished.search.right_invalid # None
    /\ finished.search.right_invalid < Len(finished.versions) - 1
    /\ finished.comparisons >= 6

\* C27: once a set_dependency_req of the write-back has failed, the command
\* has failed: it writes nothing more and does not go on to clean.
C27_WriteFailurePropagates ==
    hist.write_failed => (pc = "failed" /\ ~hist.cleaned)

\* ------------------------------------------------- properties of the cache
\* C28: a retrieval serves from the cache exactly the requested entries whose
\* age at the call is strictly less than the validity, and serves the stored
\* crate; the fetching retrieval downloads exactly the other requested names,
\* all of them when the validity is 0, and after a successful download every
\* downloaded name is stored with the time read after the download and returned as
\* downloaded, the other entries being kept.
C28_NoStaleEntry ==
    LET r == cache.last
        fresh == {name \in r.names \cap DOMAIN r.before :
                     r.now - r.before[name].last_fetched_at < r.validity}
    IN r.op # "none" =>
        /\ DOMAIN r.found = fresh
        /\ \A name \in fresh : r.found[name] = r.before[name].krate
        /\ r.op = "no_fetch" => (cache.entries = r.before /\ r.packages = r.found)
        /\ r.op = "fetch" =>
              /\ r.fetched = r.names \ fresh
              /\ r.validity = 0 => r.fetched = r.names
              /\ r.ok =>
                    /\ DOMAIN r.packages = r.names
                    /\ \A name \in r.fetched :
                          /\ name \in DOMAIN cache.entries
                          /\ cache.entries[name].last_fetched_at = r.stored_at
                          /\ r.packages[name] = cache.entries[name].krate
                          /\ r.packages[name].downloaded_at = r.stored_at
                    /\ r.now <= r.stored_at /\ r.stored_at <= cache.now
                    /\ \A name \in fresh : r.packages[name] = r.before[name].krate
                    /\ \A name \in DOMAIN r.before \ r.fetched :
                          cache.entries[name] = r.before[name]
              /\ ~r.ok => cache.entries = r.before

\* a fetching retrieval of two cached crates, one served from the cache and
\* one downloaded again because it was stale
C28_Witness ==
    LET r == cache.last IN
    /\ r.op = "fetch" /\ r.ok
    /\ r.names = CacheNames
    /\ DOMAIN r.before = CacheNames
    /\ r.validity > 0
    /\ Cardinality(DOMAIN r.found) = 1
    /\ Cardinality(r.fetched) = 1

\* ---------------------------------------- properties of the returned bounds
HasOp(req, op) == \E i \in 1..Len(req) : req[i].op = op

\* C29: when the seed's own check, if any, passed, the search emits a lower
\* bound iff the check of V[0] failed, and then left_invalid + 1 = left_valid,
\* V[left_invalid] is recorded failing and V[left_valid] is the seed or
\* recorded passing; the same for the upper bound and V[n-1].
C29_BoundsAdjacent ==
    (Returned /\ SeedNotRefuted) =>
        LET V == finished.versions
            n == Len(V)
            s == finished.search
            ledger == finished.ledger
        IN /\ At(V, 0) \in DOMAIN ledger /\ At(V, n - 1) \in DOMAIN ledger
           /\ HasOp(finished.raw, "GreaterEq") <=> ~ledger[At(V, 0)]
           /\ HasOp(finished.raw, "GreaterEq") =>
                 /\ s.left_invalid + 1 = s.left_valid
                 /\ At(V, s.left_invalid) \in DOMAIN ledger
                 /\ ~ledger[At(V, s.left_invalid)]
                 /\ \/ s.left_valid = finished.seed
                    \/ /\ At(V, s.left_valid) \in DOMAIN ledger
                       /\ ledger[At(V, s.left_valid)]
           /\ HasOp(finished.raw, "LessEq") <=> ~ledger[At(V, n - 1)]
           /\ HasOp(finished.raw, "LessEq") =>
                 /\ s.right_valid + 1 = s.right_invalid
                 /\ At(V, s.right_invalid) \in DOMAIN ledger
                 /\ ~ledger[At(V, s.right_invalid)]
                 /\ \/ s.right_valid = finished.seed
                    \/ /\ At(V, s.right_valid) \in DOMAIN ledger
                       /\ ledger[At(V, s.right_valid)]

\* both bounds emitted, each on a version other than the seed
C29_Witness ==
    /\ Returned /\ SeedNotRefuted
    /\ HasOp(finished.raw, "GreaterEq") /\ HasOp(finished.raw, "LessEq")
    /\ finished.search.left_valid # finished.seed
    /\ finished.search.right_valid # finished.seed

\* C30: when the passing versions form one run of V and the seeds of the two
\* searches both pass, the second search returns the requirement the first
\* one returned.
C30_SeedIndependent ==
    (/\ run = 2 /\ Returned /\ hist.first_seed # Nothing
     /\ ContiguousPass
     /\ Passes(SeedVersion)
     /\ Passes(Unwrap(hist.first_seed))) =>
        packages_requirements = first_requirements

\* two searches from two seeds of a run strictly inside V
C30_Witness ==
    /\ run = 2 /\ Returned /\ hist.first_seed # Nothing
    /\ ContiguousPass
    /\ Passes(SeedVersion)
    /\ Passes(Unwrap(hist.first_seed))
    /\ Unwrap(hist.first_seed) # SeedVersion
    /\ Len(finished.raw) = 2
    /\ packages_requirements = first_requirements

====
